---- MODULE Spec2Model ----
(***************************************************************************)
(* A model of rotatingBoundingBox.py: the refinement of an axis-aligned    *)
(* detection box into a rotated rectangle (get_accurate_rotated_bbox), the *)
(* pixel-to-centimetre conversion (pixel_to_cm), and the per-frame loop    *)
(* around them (process_frame, main).  The OpenCV calls are modelled by    *)
(* what the library (4.5.1 or later) computes for 8-bit images.            *)
(*                                                                         *)
(* Floating point.  Where the library computes in float32 and the order of *)
(* its operations is the build's (vector units, fused multiply-add), a     *)
(* result within 1 / (2 * FloatSlack) of a rounding tie is left open;      *)
(* where it picks the first maximum of values it computes in doubles,      *)
(* equal values are left open.  Such an operator gives the set of the      *)
(* values a build can produce, and get_binary_mask returns one of them.  A *)
(* single float operation is computed as IEEE 754 defines it.              *)
(*                                                                         *)
(* Numbers.  Box coordinates are floats in the program; here a coordinate  *)
(* is an integer number of half pixels, so int() has something to          *)
(* truncate.  A float32 is <<m, k>>, the number m / 2^k; a confidence is   *)
(* the float32 the detector gives, with 2^23 <= m < 2^24.  Area ratios are *)
(* fractions <<numerator, denominator>>.  A length <<n, d, r>> is the      *)
(* number n / (d * sqrt(r)): the sides of a rotated rectangle with integer *)
(* corners have this form.  A rectangle centre <<xn, yn, den>> is the      *)
(* point (xn / den, yn / den), and an angle is given by a direction        *)
(* <<dx, dy>>: the angle of that vector, atan2(dy, dx).                    *)
(*                                                                         *)
(* Images.  An image is [h, w, px] with px[<<y, x>>] the value of the      *)
(* pixel in row y, column x (0-based).  The frames are grey: the three     *)
(* colour channels of a pixel are equal, and px holds that value.  The     *)
(* enhanced image holds <<B, G, R>> at each pixel.  A frame buffer has a   *)
(* further field drawn, the drawing calls made on it, in order, each with  *)
(* the arguments it was given: the content of the buffer is px with those  *)
(* calls painted over it, and px is the content underneath.  The calls are *)
(* not rasterised.                                                         *)
(***************************************************************************)
EXTENDS Integers, Sequences, FiniteSets, TLC

\* ------------------------------------------------------------------ bounds
FrameW == 10
FrameH == 3
MaxDet == 2

\* ------------------------------------------------------- program constants
TileGridSize == 8
ClipLimit == 3
HistSize == 256
BlockSize == 11
AdaptiveC == 2
EpsilonPercent == 2
\* conf_threshold=0.4, the double: (13421772 + 214748365 / 2^28) / 2^25
ConfThreshold == <<13421772, 214748365, 25>>
DepthCm == 100
FocalLengthPixels == 1000
TextLineOffset == 20
CircleRadius == 3
Thickness == 2
Filled == -1
FontScaleTenths == 5
TextThickness == 2
Black == 0
White == 255
Green == <<0, 255, 0>>
Red == <<0, 0, 255>>
TextColor == <<255, 255, 255>>

DefaultMinAreaRatio == <<1, 10>>

\* ------------------------------------------------------ library constants
\* BGR to grey: 14-bit fixed-point weights of B, G and R.
GrayWeights == <<1868, 9617, 4899>>
GrayShift == 16384

\* The 5-tap Gaussian kernel chosen for sigma 0, in sixteenths.
BlurKernel == <<1, 4, 6, 4, 1>>
BlurScale == 256

\* The 11-tap Gaussian kernel of sigma 2.0 (0.3 * ((11 - 1) * 0.5 - 1) + 0.8)
\* as the library holds it in float32, by distance from the centre, in
\* 2^-24.
GaussKernel == <<3364929, 2969540, 2040933, 1092433, 455394, 147845>>

\* A float32 result is at most 1 / (2 * FloatSlack) from the exact one.
FloatSlack == 512

\* L of a grey pixel in 8-bit Lab, by the library's integer conversion
\* (gamma table, cube-root table built in float32, fixed point); entry
\* v + 1 is for level v.
LabLOfGray ==
  <<  0,   1,   1,   2,   2,   3,   5,   5,   6,   7,   7,   8,   9,   9,  10,  11,
     12,  12,  14,  15,  16,  17,  18,  19,  21,  23,  24,  25,  27,  27,  28,  30,
     31,  33,  34,  35,  36,  38,  39,  40,  41,  42,  43,  45,  46,  47,  48,  50,
     51,  52,  53,  54,  55,  57,  58,  59,  60,  61,  62,  63,  65,  66,  67,  68,
     69,  70,  71,  73,  74,  75,  76,  77,  78,  79,  80,  82,  82,  83,  85,  86,
     87,  88,  89,  90,  91,  92,  93,  94,  95,  97,  98,  99, 100, 101, 102, 103,
    104, 105, 106, 107, 108, 109, 110, 111, 112, 113, 114, 115, 116, 117, 119, 120,
    121, 122, 123, 124, 125, 126, 127, 128, 129, 130, 131, 132, 133, 134, 135, 136,
    137, 138, 139, 140, 141, 142, 143, 144, 145, 146, 147, 148, 149, 150, 151, 152,
    153, 154, 155, 156, 156, 157, 158, 159, 160, 161, 162, 163, 164, 165, 166, 167,
    168, 169, 170, 171, 172, 173, 174, 175, 176, 177, 178, 179, 180, 180, 181, 182,
    183, 184, 185, 186, 187, 188, 189, 190, 191, 192, 193, 194, 195, 196, 196, 197,
    198, 199, 200, 201, 202, 203, 204, 205, 206, 207, 208, 208, 209, 210, 211, 212,
    213, 214, 215, 216, 217, 218, 219, 219, 220, 221, 222, 223, 224, 225, 226, 227,
    228, 228, 229, 230, 231, 232, 233, 234, 235, 236, 237, 237, 238, 239, 240, 241,
    242, 243, 244, 245, 245, 246, 247, 248, 249, 250, 251, 252, 253, 253, 254, 255>>

\* <<B, G, R>> of the neutral Lab pixel (a = b = 128) of each L, by the
\* library's integer conversion; entry L + 1 is for L.
BgrOfLabL ==
  <<<<0, 0, 0>>, <<2, 1, 2>>, <<4, 2, 6>>, <<6, 3, 8>>, <<8, 4, 10>>, <<10, 6, 13>>,
    <<12, 6, 15>>, <<13, 7, 17>>, <<15, 8, 19>>, <<16, 9, 20>>, <<18, 10, 22>>, <<19, 11, 23>>,
    <<21, 12, 25>>, <<22, 13, 26>>, <<23, 14, 27>>, <<24, 15, 29>>, <<25, 15, 30>>, <<26, 16, 31>>,
    <<27, 16, 32>>, <<28, 17, 34>>, <<29, 18, 35>>, <<24, 24, 24>>, <<25, 25, 25>>, <<25, 25, 25>>,
    <<26, 26, 26>>, <<27, 27, 27>>, <<28, 28, 28>>, <<29, 29, 29>>, <<29, 29, 30>>, <<30, 30, 30>>,
    <<31, 31, 31>>, <<32, 32, 32>>, <<33, 33, 33>>, <<34, 34, 34>>, <<34, 34, 34>>, <<35, 35, 35>>,
    <<36, 36, 36>>, <<36, 37, 36>>, <<37, 38, 37>>, <<38, 38, 38>>, <<39, 39, 39>>, <<40, 40, 40>>,
    <<41, 41, 41>>, <<42, 42, 42>>, <<42, 43, 42>>, <<43, 43, 43>>, <<44, 44, 44>>, <<45, 45, 45>>,
    <<46, 46, 46>>, <<47, 47, 47>>, <<47, 48, 47>>, <<48, 48, 48>>, <<49, 49, 49>>, <<50, 50, 50>>,
    <<51, 51, 51>>, <<52, 52, 52>>, <<52, 52, 53>>, <<53, 53, 53>>, <<54, 54, 54>>, <<55, 55, 55>>,
    <<56, 56, 56>>, <<57, 57, 57>>, <<58, 58, 58>>, <<59, 59, 58>>, <<59, 59, 59>>, <<60, 60, 60>>,
    <<61, 61, 61>>, <<62, 62, 62>>, <<63, 63, 63>>, <<64, 64, 64>>, <<65, 65, 65>>, <<66, 66, 66>>,
    <<67, 67, 67>>, <<67, 67, 67>>, <<68, 68, 68>>, <<69, 69, 69>>, <<70, 70, 70>>, <<71, 71, 71>>,
    <<72, 72, 72>>, <<73, 73, 73>>, <<74, 74, 74>>, <<75, 75, 75>>, <<76, 76, 75>>, <<77, 77, 77>>,
    <<77, 77, 77>>, <<78, 78, 78>>, <<79, 79, 79>>, <<80, 80, 80>>, <<81, 81, 81>>, <<82, 82, 82>>,
    <<83, 83, 83>>, <<84, 84, 84>>, <<85, 85, 85>>, <<86, 86, 86>>, <<87, 87, 87>>, <<88, 88, 88>>,
    <<89, 89, 89>>, <<90, 90, 90>>, <<90, 90, 90>>, <<91, 91, 91>>, <<92, 92, 92>>, <<93, 93, 93>>,
    <<94, 94, 94>>, <<95, 95, 95>>, <<96, 96, 96>>, <<97, 97, 97>>, <<98, 98, 98>>, <<99, 99, 99>>,
    <<100, 100, 100>>, <<101, 101, 101>>, <<102, 102, 102>>, <<103, 103, 103>>, <<104, 104, 104>>, <<105, 105, 105>>,
    <<106, 106, 106>>, <<107, 107, 107>>, <<108, 108, 108>>, <<109, 109, 109>>, <<110, 110, 110>>, <<111, 111, 111>>,
    <<112, 112, 112>>, <<112, 112, 112>>, <<113, 114, 113>>, <<114, 114, 115>>, <<115, 115, 115>>, <<116, 116, 116>>,
    <<117, 117, 117>>, <<118, 118, 118>>, <<119, 119, 119>>, <<120, 120, 120>>, <<121, 121, 121>>, <<122, 122, 122>>,
    <<123, 123, 123>>, <<124, 124, 124>>, <<125, 125, 125>>, <<126, 126, 126>>, <<127, 127, 127>>, <<128, 128, 128>>,
    <<129, 129, 129>>, <<130, 130, 130>>, <<131, 131, 131>>, <<132, 132, 132>>, <<133, 133, 133>>, <<134, 134, 134>>,
    <<135, 135, 135>>, <<136, 136, 136>>, <<137, 137, 137>>, <<138, 138, 138>>, <<139, 139, 139>>, <<140, 140, 140>>,
    <<141, 141, 141>>, <<142, 143, 143>>, <<144, 144, 144>>, <<144, 145, 145>>, <<146, 146, 146>>, <<147, 147, 147>>,
    <<148, 148, 148>>, <<149, 149, 149>>, <<150, 150, 150>>, <<151, 151, 151>>, <<152, 152, 152>>, <<153, 153, 153>>,
    <<154, 154, 154>>, <<155, 155, 155>>, <<156, 156, 156>>, <<157, 157, 157>>, <<158, 158, 158>>, <<159, 159, 159>>,
    <<160, 160, 160>>, <<161, 161, 161>>, <<162, 162, 162>>, <<163, 163, 163>>, <<164, 164, 164>>, <<165, 165, 165>>,
    <<166, 166, 166>>, <<167, 167, 167>>, <<168, 168, 168>>, <<169, 169, 169>>, <<170, 171, 170>>, <<172, 172, 172>>,
    <<173, 173, 173>>, <<174, 174, 174>>, <<175, 175, 175>>, <<176, 176, 176>>, <<177, 177, 177>>, <<178, 178, 178>>,
    <<179, 179, 179>>, <<180, 180, 180>>, <<181, 181, 181>>, <<182, 182, 182>>, <<183, 183, 183>>, <<184, 184, 184>>,
    <<185, 185, 185>>, <<186, 186, 186>>, <<188, 188, 188>>, <<189, 189, 189>>, <<190, 190, 190>>, <<191, 191, 191>>,
    <<192, 192, 192>>, <<193, 193, 193>>, <<194, 194, 194>>, <<195, 195, 195>>, <<196, 196, 196>>, <<197, 197, 197>>,
    <<198, 198, 198>>, <<199, 199, 199>>, <<200, 200, 200>>, <<202, 202, 202>>, <<203, 203, 203>>, <<204, 204, 204>>,
    <<205, 205, 205>>, <<206, 206, 206>>, <<207, 207, 207>>, <<208, 208, 208>>, <<209, 209, 209>>, <<210, 210, 210>>,
    <<211, 211, 211>>, <<212, 213, 212>>, <<214, 214, 214>>, <<215, 215, 215>>, <<216, 216, 216>>, <<217, 217, 217>>,
    <<218, 218, 218>>, <<219, 219, 219>>, <<220, 220, 220>>, <<221, 221, 221>>, <<222, 222, 222>>, <<224, 224, 224>>,
    <<225, 225, 225>>, <<226, 226, 226>>, <<227, 227, 227>>, <<228, 228, 228>>, <<229, 229, 229>>, <<230, 230, 230>>,
    <<231, 231, 231>>, <<232, 232, 232>>, <<234, 234, 234>>, <<235, 235, 235>>, <<236, 236, 236>>, <<237, 237, 237>>,
    <<238, 238, 238>>, <<239, 239, 239>>, <<240, 240, 240>>, <<241, 241, 241>>, <<243, 243, 243>>, <<244, 244, 244>>,
    <<245, 245, 245>>, <<246, 246, 246>>, <<247, 247, 247>>, <<248, 248, 248>>, <<249, 249, 249>>, <<250, 250, 250>>,
    <<252, 252, 252>>, <<253, 253, 253>>, <<254, 254, 254>>, <<255, 255, 255>> >>

\* ----------------------------------------------------------------- helpers
Max(a, b) == IF a >= b THEN a ELSE b
Min(a, b) == IF a <= b THEN a ELSE b
Abs(a) == IF a >= 0 THEN a ELSE -a

\* The function f as an explicit table of its values (the same function).
Table(f) == f @@ << >>

RECURSIVE SumOver(_, _)
SumOver(S, f) ==
  IF S = {} THEN 0
  ELSE LET e == CHOOSE e \in S : TRUE IN f[e] + SumOver(S \ {e}, f)

\* f[lo] + ... + f[hi]
RECURSIVE SumFn(_, _, _)
SumFn(f, lo, hi) == IF lo > hi THEN 0 ELSE f[lo] + SumFn(f, lo + 1, hi)

RECURSIVE Gcd(_, _)
Gcd(a, b) == IF b = 0 THEN a ELSE Gcd(b, a % b)

\* int(v) of a float given in half pixels: truncation toward zero.
IntOfHalf(v) == IF v >= 0 THEN v \div 2 ELSE -((-v) \div 2)

\* n / d truncated toward zero (d > 0): astype(int), int().
TruncDiv(n, d) == IF n >= 0 THEN n \div d ELSE -((-n) \div d)

\* num / den (both non-negative) rounded to the nearest integer, halves to
\* the even one: cvRound, saturate_cast of a float.
RoundHalfEven(num, den) ==
  LET q == num \div den
      r == num % den
  IN IF 2 * r > den \/ (2 * r = den /\ q % 2 = 1) THEN q + 1 ELSE q

\* The number of binary digits of x >= 0.
RECURSIVE BitLen(_)
BitLen(x) == IF x = 0 THEN 0 ELSE 1 + BitLen(x \div 2)

\* The float32 quotient of two positive integers with divisor b: q holds
\* the binary digits taken so far, k of them after the point, and r is the
\* remainder.  24 significant digits are taken and the last is rounded.
RECURSIVE FloatQuotient(_, _, _, _)
FloatQuotient(q, r, b, k) ==
  IF q < 2^23
  THEN FloatQuotient(2 * q + (IF 2 * r >= b THEN 1 ELSE 0), (2 * r) % b, b, k + 1)
  ELSE <<q + (IF 2 * r > b \/ (2 * r = b /\ q % 2 = 1) THEN 1 ELSE 0), k>>

\* The float32 nearest to (4096 * hi + lo) / 2^k, lo < 4096: the d last
\* binary digits are dropped, halves to even.
FloatRounded(hi, lo, d, k) ==
  LET m == IF d <= 12 THEN hi * 2^(12 - d) + lo \div 2^d ELSE hi \div 2^(d - 12)
      rest == IF d <= 12 THEN lo % 2^d ELSE (hi % 2^(d - 12)) * 4096 + lo
  IN <<m + (IF 2 * rest > 2^d \/ (2 * rest = 2^d /\ m % 2 = 1) THEN 1 ELSE 0), k - d>>

\* The float32 product of the integer s (0 <= s < 2^16) and the float32 f.
FloatTimes(s, f) ==
  LET hi == s * (f[1] \div 4096) + (s * (f[1] % 4096)) \div 4096
      lo == (s * (f[1] % 4096)) % 4096
  IN FloatRounded(hi, lo, Max(BitLen(hi) - 12, 0), f[2])

\* cvRound of a float32 f >= 0 under 2^24: the nearest integer, halves to
\* even.
CvRound(f) ==
  IF f[2] <= 0 THEN f[1] * 2^(-f[2])
  ELSE IF f[2] > 30 THEN 0
  ELSE RoundHalfEven(f[1], 2^f[2])

\* What a float32 computation of num / den (num >= 0, den > 0) can round
\* to: the nearest integer (halves to even) when the computation is exact
\* or num / den is over 1 / (2 * FloatSlack) from a tie, and otherwise
\* both neighbours.
NearRounds(num, den, exact) ==
  IF /\ ~exact
     /\ FloatSlack * Abs(2 * num - (2 * (num \div den) + 1) * den) <= den
  THEN {num \div den, num \div den + 1}
  ELSE {RoundHalfEven(num, den)}

\* The functions that take at each p one of the values opt[p].
Choices(opt) ==
  LET open == {p \in DOMAIN opt : Cardinality(opt[p]) > 1}
  IN {Table([p \in DOMAIN opt |-> IF p \in open THEN g[p] ELSE CHOOSE v \in opt[p] : TRUE]) :
        g \in {f \in [open -> UNION {opt[p] : p \in open}] : \A p \in open : f[p] \in opt[p]}}

\* BORDER_REFLECT_101: position p on an axis of length n.
RECURSIVE Reflect101(_, _)
Reflect101(p, n) ==
  IF n = 1 THEN 0
  ELSE IF p < 0 THEN Reflect101(-p, n)
  ELSE IF p >= n THEN Reflect101(2 * n - 2 - p, n)
  ELSE p

\* BORDER_REPLICATE
Replicate(p, n) == Max(0, Min(n - 1, p))

\* p1 / q1 < p2 / q2 for non-negative numerators and positive denominators,
\* compared by their continued fractions (no product is formed).
RECURSIVE FracLess(_, _, _, _)
FracLess(p1, q1, p2, q2) ==
  IF p1 \div q1 # p2 \div q2 THEN p1 \div q1 < p2 \div q2
  ELSE IF p2 % q2 = 0 THEN FALSE
  ELSE IF p1 % q1 = 0 THEN TRUE
  ELSE FracLess(q2, p2 % q2, q1, p1 % q1)

\* For p >= 0 and q > 0: p / q < sqrt(2) when below, p / q > sqrt(2) when not.
RECURSIVE BelowRoot2(_, _, _)
BelowRoot2(p, q, below) ==
  IF p <= q THEN below
  ELSE IF p >= 2 * q THEN ~below
  ELSE BelowRoot2(2 * q - p, p - q, ~below)

\* A Python/numpy slice bound k on an axis of length n.
SliceIndex(k, n) == IF k < 0 THEN Max(k + n, 0) ELSE Min(k, n)

Pixels(img) == (0 .. img.h - 1) \X (0 .. img.w - 1)

IsEmptyImage(img) == img.h = 0 \/ img.w = 0

Levels(img) == {img.px[p] : p \in Pixels(img)}

\* image[y1:y2, x1:x2] with integer bounds b = <<x1, y1, x2, y2>>.
Crop(image, b) ==
  LET xa == SliceIndex(b[1], image.w)
      xb == SliceIndex(b[3], image.w)
      ya == SliceIndex(b[2], image.h)
      yb == SliceIndex(b[4], image.h)
      ww == Max(xb - xa, 0)
      hh == Max(yb - ya, 0)
  IN [h |-> hh, w |-> ww,
      px |-> Table([p \in (0 .. hh - 1) \X (0 .. ww - 1) |->
                      image.px[<<p[1] + ya, p[2] + xa>>]])]

\* ---------------------------------------------------------- enhance_image
\* cv2.cvtColor(roi, COLOR_BGR2LAB) and cv2.split: the L channel.
LabL(roi) ==
  [h |-> roi.h, w |-> roi.w,
   px |-> Table([p \in Pixels(roi) |-> LabLOfGray[roi.px[p] + 1]])]

\* CLAHE works on the image extended to a multiple of the tile grid: when
\* either side is not a multiple of 8, both sides are padded (reflecting).
\* The size <<width, height>> of a tile of the extended image.
ClaheTileSize(img) ==
  IF img.w % TileGridSize = 0 /\ img.h % TileGridSize = 0
  THEN <<img.w \div TileGridSize, img.h \div TileGridSize>>
  ELSE <<(img.w + TileGridSize - (img.w % TileGridSize)) \div TileGridSize,
         (img.h + TileGridSize - (img.h % TileGridSize)) \div TileGridSize>>

\* The values of the pixels of tile (ty, tx) of the extended image, tiles of
\* size <<width, height>>; the extension reflects the image.
TileValues(img, size, ty, tx) ==
  Table([p \in (ty * size[2] .. ty * size[2] + size[2] - 1)
                 \X (tx * size[1] .. tx * size[1] + size[1] - 1) |->
           img.px[<<Reflect101(p[1], img.h), Reflect101(p[2], img.w)>>]])

\* The tile's histogram (on the levels that occur), clipped.
ClippedHist(val, clip) ==
  Table([u \in {val[p] : p \in DOMAIN val} |->
           Min(Cardinality({p \in DOMAIN val : val[p] = u}), clip)])

\* How many of the residual counts, handed out one by one at a fixed
\* stride from bin 0, fall on the bins up to v.
ResidualUpTo(residual, v) ==
  IF residual = 0 THEN 0
  ELSE Min(residual, (v \div Max(HistSize \div residual, 1)) + 1)

\* The lookup value at level v from the clipped histogram of a tile of n
\* pixels of which clipped were cut off: the excess is spread over the bins
\* (evenly, the remainder by ResidualUpTo), and the cumulated histogram is
\* multiplied by lutScale, the float32 (histSize - 1) / n, and rounded.
LutValue(kept, n, clipped, v) ==
  Min(CvRound(FloatTimes(SumOver({u \in DOMAIN kept : u <= v}, kept)
                           + (v + 1) * (clipped \div HistSize)
                           + ResidualUpTo(clipped % HistSize, v),
                         FloatQuotient((HistSize - 1) \div n, (HistSize - 1) % n, n, 0))),
      HistSize - 1)

\* The lookup table of tile (ty, tx) at level v; the histogram is clipped
\* at max(clipLimit * tileArea / 256, 1).
ClaheLut(img, ty, tx, v) ==
  LET size == ClaheTileSize(img)
      n == size[1] * size[2]
      kept == ClippedHist(TileValues(img, size, ty, tx),
                          Max((ClipLimit * n) \div HistSize, 1))
  IN LutValue(kept, n, n - SumOver(DOMAIN kept, kept), v)

\* For the doubled offset n = 2 * position - tile size along one axis:
\* <<the tile before, the tile after, the doubled distance to the tile
\* before>>, the tiles kept inside the grid.
TilePosition(n, size) ==
  LET f == n \div (2 * size)
  IN <<Max(f, 0), Min(f + 1, TileGridSize - 1), n - f * 2 * size>>

\* The bilinear mix of what the four tiles Y[1..2] x X[1..2] give for v,
\* computed in float32 from the weights x / tw - 0.5 and y / th - 0.5: the
\* values it can take.  The computation is exact when both sides of the
\* tile are powers of two.
ClaheMix(lut, v, Y, X, th, tw) ==
  {Min(m, HistSize - 1) :
     m \in NearRounds(
       (lut[<<Y[1], X[1], v>>] * (2 * tw - X[3]) + lut[<<Y[1], X[2], v>>] * X[3])
           * (2 * th - Y[3])
         + (lut[<<Y[2], X[1], v>>] * (2 * tw - X[3]) + lut[<<Y[2], X[2], v>>] * X[3])
           * Y[3],
       4 * tw * th,
       tw = 2^(BitLen(tw) - 1) /\ th = 2^(BitLen(th) - 1))}

ClaheInterpolate(img, size, lut) ==
  {[h |-> img.h, w |-> img.w, px |-> c] :
     c \in Choices([p \in Pixels(img) |->
            ClaheMix(lut, img.px[p], TilePosition(2 * p[1] - size[2], size[2]),
                     TilePosition(2 * p[2] - size[1], size[1]), size[2], size[1])])}

\* createCLAHE(clipLimit=3.0, tileGridSize=(8,8)).apply: each pixel takes
\* the bilinear mix, by its distance to the four nearest tile centres, of
\* what the lookup tables of those tiles give for its level.  The images
\* the call can return.
ClaheApply(img) ==
  ClaheInterpolate(img, ClaheTileSize(img),
    Table([k \in (0 .. TileGridSize - 1) \X (0 .. TileGridSize - 1) \X Levels(img) |->
             ClaheLut(img, k[1], k[2], k[3])]))

\* cv2.merge([cl, a, b]) and cv2.cvtColor(enhanced, COLOR_LAB2BGR); a and
\* b of a grey pixel are 128.
LabToBgr(cl) ==
  [h |-> cl.h, w |-> cl.w,
   px |-> Table([p \in Pixels(cl) |-> BgrOfLabL[cl.px[p] + 1]])]

\* The images enhance_image can return.
EnhanceImage(roi) == {LabToBgr(cl) : cl \in ClaheApply(LabL(roi))}

\* -------------------------------------------------------- get_binary_mask
\* cv2.cvtColor(enhanced, COLOR_BGR2GRAY)
BgrToGray(img) ==
  [h |-> img.h, w |-> img.w,
   px |-> Table([p \in Pixels(img) |->
     (GrayWeights[1] * img.px[p][1] + GrayWeights[2] * img.px[p][2]
        + GrayWeights[3] * img.px[p][3] + GrayShift \div 2) \div GrayShift])]

\* cv2.GaussianBlur(gray, (5, 5), 0): borders reflected.
GaussianBlur(img) ==
  LET at(p) ==
        SumFn([i \in 1 .. 5 |->
                 BlurKernel[i] *
                 SumFn([j \in 1 .. 5 |->
                          BlurKernel[j] * img.px[<<Reflect101(p[1] + i - 3, img.h),
                                                   Reflect101(p[2] + j - 3, img.w)>>]],
                       1, 5)],
              1, 5)
  IN [h |-> img.h, w |-> img.w,
      px |-> Table([p \in Pixels(img) |-> (at(p) + BlurScale \div 2) \div BlurScale])]

\* The sum of f over the pixels of img, row by row.
SumPixels(img, f) ==
  SumFn([y \in 0 .. img.h - 1 |->
           SumFn([x \in 0 .. img.w - 1 |-> f[<<y, x>>]], 0, img.w - 1)],
        0, img.h - 1)

\* The between-class variance, up to a constant factor, of a split into q1
\* pixels of sum s1 and q2 pixels of sum s2, as the fraction <<numerator
\* root, denominator>>: the variance is root^2 / denominator.  << >> when a
\* class is empty.
ClassVariance(q1, s1, q2, s2) ==
  IF q1 = 0 \/ q2 = 0 THEN << >>
  ELSE <<Abs(s1 * q2 - s2 * q1), q1 * q2>>

\* The variance of the split of img at level t.
OtsuScore(img, t) ==
  ClassVariance(
    SumPixels(img, [p \in Pixels(img) |-> IF img.px[p] <= t THEN 1 ELSE 0]),
    SumPixels(img, [p \in Pixels(img) |-> IF img.px[p] <= t THEN img.px[p] ELSE 0]),
    SumPixels(img, [p \in Pixels(img) |-> IF img.px[p] <= t THEN 0 ELSE 1]),
    SumPixels(img, [p \in Pixels(img) |-> IF img.px[p] <= t THEN 0 ELSE img.px[p]]))

\* s[1]^2 / s[2] > u[1]^2 / u[2], for positive s[1], u[1]
OtsuGreater(s, u) ==
  LET g == Gcd(s[1], u[1])
      k == Gcd(s[2], u[2])
  IN FracLess(u[1] \div g, (s[1] \div g) * (u[2] \div k),
              s[1] \div g, (u[1] \div g) * (s[2] \div k))

\* The levels of the greatest score among those that separate two classes;
\* 0 when there is none.
BestLevels(score) ==
  LET cand == {t \in DOMAIN score : score[t] # << >> /\ score[t][1] > 0}
  IN IF cand = {} THEN {0}
     ELSE {t \in cand : \A u \in cand : ~OtsuGreater(score[u], score[t])}

\* The threshold of THRESH_OTSU: the first level at which the between-class
\* variance, computed in doubles, is the greatest; 0 when no level
\* separates two classes.  Of levels of equal variance the rounding
\* decides: the thresholds the call can find.  A level no pixel has splits
\* the image as the nearest lower level that some pixel has, which stands
\* for it here.
OtsuThreshold(img) == BestLevels(Table([t \in Levels(img) |-> OtsuScore(img, t)]))

\* cv2.threshold(blurred, 0, 255, THRESH_BINARY + THRESH_OTSU), t the
\* threshold found.
ThresholdOtsu(img, t) ==
  Table([p \in Pixels(img) |-> IF img.px[p] > t THEN White ELSE Black])

\* The weighted sums along x, at every pixel, rounded to 65536ths; the
\* kernel weight is by the distance from the centre of the block.
GaussRows(img) ==
  Table([p \in Pixels(img) |->
    LET prod == [k \in 0 .. BlockSize - 1 |->
                   GaussKernel[Abs(k - (BlockSize - 1) \div 2) + 1]
                     * img.px[<<p[1], Replicate(p[2] + k - (BlockSize - 1) \div 2, img.w)>>]]
    IN SumFn([k \in 0 .. BlockSize - 1 |-> prod[k] \div 256], 0, BlockSize - 1)
         + (SumFn([k \in 0 .. BlockSize - 1 |-> prod[k] % 256], 0, BlockSize - 1) + 128)
             \div 256])

\* The values the weighted mean at p can take, from the row sums of an
\* image of height h.  A weight is split at 2048 and a row sum at 4096, and
\* the mean is formed in 2^-20.
GaussMean(row, h, p) ==
  LET weight == [k \in 0 .. BlockSize - 1 |->
                   GaussKernel[Abs(k - (BlockSize - 1) \div 2) + 1]]
      sum == [k \in 0 .. BlockSize - 1 |->
                row[<<Replicate(p[1] + k - (BlockSize - 1) \div 2, h), p[2]>>]]
  IN NearRounds(
       8 * SumFn([k \in 0 .. BlockSize - 1 |-> (weight[k] \div 2048) * (sum[k] \div 4096)],
                 0, BlockSize - 1)
         + (2 * SumFn([k \in 0 .. BlockSize - 1 |-> (weight[k] % 2048) * (sum[k] \div 4096)],
                      0, BlockSize - 1)
              + SumFn([k \in 0 .. BlockSize - 1 |-> (weight[k] \div 2048) * (sum[k] % 4096)],
                      0, BlockSize - 1)
              + SumFn([k \in 0 .. BlockSize - 1 |-> (weight[k] % 2048) * (sum[k] % 4096)],
                      0, BlockSize - 1) \div 2048) \div 512,
       2^20, FALSE)

\* The Gaussian-weighted mean of the 11x11 block centred on each pixel,
\* borders replicated, computed in float32 and rounded (halves to even)
\* to an 8-bit value: the values it can take at each pixel.
AdaptiveMean(img) ==
  LET row == GaussRows(img)
  IN Table([p \in Pixels(img) |-> GaussMean(row, img.h, p)])

\* cv2.adaptiveThreshold(blurred, 255, ADAPTIVE_THRESH_GAUSSIAN_C,
\* THRESH_BINARY, 11, 2): foreground where pixel - mean > -2.  The masks
\* the call can return.
AdaptiveThreshold(img) ==
  LET mean == AdaptiveMean(img)
  IN Choices([p \in Pixels(img) |->
                {IF img.px[p] - m > -AdaptiveC THEN White ELSE Black : m \in mean[p]}])

BitwiseOr(a, b) ==
  Table([p \in DOMAIN a |-> IF a[p] = White \/ b[p] = White THEN White ELSE Black])

\* 3x3 structuring element; pixels outside the image do not take part.
Neighbours(img, p) ==
  {q \in Pixels(img) : Abs(q[1] - p[1]) <= 1 /\ Abs(q[2] - p[2]) <= 1}

Dilate(img) ==
  [h |-> img.h, w |-> img.w,
   px |-> Table([p \in Pixels(img) |->
     IF \E q \in Neighbours(img, p) : img.px[q] = White THEN White ELSE Black])]

Erode(img) ==
  [h |-> img.h, w |-> img.w,
   px |-> Table([p \in Pixels(img) |->
     IF \A q \in Neighbours(img, p) : img.px[q] = White THEN White ELSE Black])]

MorphClose(img) == Erode(Dilate(img))

MorphOpen(img) == Dilate(Erode(img))

\* The two thresholds of the smoothed image, combined and cleaned: the
\* masks that can result.
Binarize(blurred) ==
  {MorphOpen(MorphClose([h |-> blurred.h, w |-> blurred.w,
                         px |-> BitwiseOr(ThresholdOtsu(blurred, t), a)])) :
     t \in OtsuThreshold(blurred), a \in AdaptiveThreshold(blurred)}

\* get_binary_mask of a non-empty region: the masks it can return.
GetBinaryMask(roi) ==
  UNION {Binarize(GaussianBlur(BgrToGray(e))) : e \in EnhanceImage(roi)}

\* ------------------------------------------------------------- contours
\* A contour is a sequence of points <<x, y>>.
\* The eight neighbours by direction code: 0 east, then counter-clockwise on
\* the screen (1 north-east, 2 north, ..., 7 south-east).
Delta ==
  << <<1, 0>>, <<1, -1>>, <<0, -1>>, <<-1, -1>>,
     <<-1, 0>>, <<-1, 1>>, <<0, 1>>, <<1, 1>> >>

Step(p, s) == <<p[1] + Delta[s + 1][1], p[2] + Delta[s + 1][2]>>

Foreground(mask, q) ==
  /\ <<q[2], q[1]>> \in Pixels(mask)
  /\ mask.px[<<q[2], q[1]>>] # Black

\* The direction of the first foreground neighbour of p0 met when turning
\* clockwise from west (north-west, north, ..., south-west); -1 if none.
FirstNeighbour(mask, p0) ==
  LET order == <<3, 2, 1, 0, 7, 6, 5>>
      hits == {i \in 1 .. 7 : Foreground(mask, Step(p0, order[i]))}
  IN IF hits = {} THEN -1
     ELSE order[CHOOSE i \in hits : \A j \in hits : i <= j]

\* How many turns counter-clockwise, starting just after direction s, lead
\* to the first foreground neighbour of p.
NextTurns(mask, p, s) ==
  CHOOSE k \in 1 .. 8 :
    /\ Foreground(mask, Step(p, (s + k) % 8))
    /\ \A j \in 1 .. k - 1 : ~Foreground(mask, Step(p, (s + j) % 8))

\* Border following from p3, last arrived from direction s.  With
\* CHAIN_APPROX_SIMPLE a border pixel is stored (pts) when the direction
\* changes there.  Every pixel passed is labelled (seen), as a right edge
\* (right) when the turn went over its east neighbour and that is
\* background.  The walk ends when it is about to repeat its first step.
RECURSIVE Follow(_, _, _, _, _, _, _)
Follow(mask, p0, p1, p3, s, prev, tr) ==
  LET k == NextTurns(mask, p3, s)
      out == [pts |-> IF (s + k) % 8 # prev THEN Append(tr.pts, p3) ELSE tr.pts,
              seen |-> tr.seen \cup {p3},
              right |-> IF s + k > 8 THEN tr.right \cup {p3} ELSE tr.right]
  IN IF Step(p3, (s + k) % 8) = p0 /\ p3 = p1 THEN out
     ELSE Follow(mask, p0, p1, Step(p3, (s + k) % 8), (s + k + 4) % 8, (s + k) % 8, out)

\* The border followed from the pixel start = <<y, x>>.
TraceContour(mask, start) ==
  LET p0 == <<start[2], start[1]>>
      s == FirstNeighbour(mask, p0)
  IN IF s = -1 THEN [pts |-> <<p0>>, seen |-> {p0}, right |-> {p0}]
     ELSE Follow(mask, p0, Step(p0, s), p0, s, (s + 4) % 8,
                 [pts |-> << >>, seen |-> {}, right |-> {}])

\* The pixels <<y, x>> where a row passes from background to foreground,
\* in raster order (rows from the top, left to right).
Starts(mask) ==
  SelectSeq([i \in 1 .. mask.h * mask.w |-> <<(i - 1) \div mask.w, (i - 1) % mask.w>>],
            LAMBDA p : /\ mask.px[p] # Black
                       /\ ~Foreground(mask, <<p[2] - 1, p[1]>>))

\* The scan of RETR_EXTERNAL from the i-th start on; inner holds the
\* border pixels labelled so far that are no right edge, and right those
\* that are.  A start is passed over when it is labelled, or when the last
\* labelled pixel before it in its row is no right edge: it lies within a
\* border followed before.  The border found last comes first.
RECURSIVE Scan(_, _, _, _, _)
Scan(mask, starts, i, inner, right) ==
  IF i > Len(starts) THEN << >>
  ELSE LET q == <<starts[i][2], starts[i][1]>>
           left == {r \in inner \cup right : r[2] = q[2] /\ r[1] < q[1]}
           tr == TraceContour(mask, starts[i])
       IN IF \/ q \in inner \cup right
             \/ \E r \in left \cap inner : \A u \in left : u[1] <= r[1]
          THEN Scan(mask, starts, i + 1, inner, right)
          ELSE Scan(mask, starts, i + 1, inner \cup (tr.seen \ tr.right),
                    right \cup tr.right) \o <<tr.pts>>

\* cv2.findContours(binary, RETR_EXTERNAL, CHAIN_APPROX_SIMPLE): the outer
\* borders of the 8-connected components that lie within no other border.
FindContours(mask) == Scan(mask, Starts(mask), 1, {}, {})

Succ(i, n) == IF i = n THEN 1 ELSE i + 1

\* cv2.contourArea, doubled: the shoelace sum of the contour's points.
ContourArea2(c) ==
  LET n == Len(c)
      term == [i \in 1 .. n |-> c[i][1] * c[Succ(i, n)][2] - c[Succ(i, n)][1] * c[i][2]]
  IN Abs(SumFn(term, 1, n))

\* cv2.arcLength(c, True) of a contour whose segments are horizontal,
\* vertical or diagonal: <<a, b>> for the length a + b * sqrt(2).
ArcLength(c) ==
  LET n == Len(c)
      dx == [i \in 1 .. n |-> Abs(c[Succ(i, n)][1] - c[i][1])]
      dy == [i \in 1 .. n |-> Abs(c[Succ(i, n)][2] - c[i][2])]
      straight == [i \in 1 .. n |-> IF dx[i] = 0 \/ dy[i] = 0 THEN dx[i] + dy[i] ELSE 0]
      diagonal == [i \in 1 .. n |-> IF dx[i] = 0 \/ dy[i] = 0 THEN 0 ELSE dx[i]]
  IN <<SumFn(straight, 1, n), SumFn(diagonal, 1, n)>>

Cross(a, b, p) == (b[1] - a[1]) * (p[2] - a[2]) - (b[2] - a[2]) * (p[1] - a[1])
Dist2(a, b) == (b[1] - a[1]) * (b[1] - a[1]) + (b[2] - a[2]) * (b[2] - a[2])

\* lhs <= epsilon^2 * scale / divisor, with epsilon = 0.02 * arcLength and
\* arc = <<a, b>> the arc length a + b * sqrt(2): with e2 the square of the
\* percentage, 10000 * divisor * lhs - e2 * (a^2 + 2 b^2) * scale is at
\* most e2 * 2ab * scale * sqrt(2).
WithinEpsilon(lhs, scale, arc, divisor) ==
  LET x == 10000 * divisor * lhs
             - EpsilonPercent * EpsilonPercent
                 * (arc[1] * arc[1] + 2 * arc[2] * arc[2]) * scale
      r == EpsilonPercent * EpsilonPercent * 2 * arc[1] * arc[2] * scale
  IN x <= 0 \/ (r > 0 /\ BelowRoot2(x, r, TRUE))

\* What approxPolyDP leaves in place of a point when its assertion on a
\* chord of length zero fails.
AssertionFailed == <<-1, -1>>

\* From the point at position pos (0-based): <<the largest squared distance
\* to another point, the offset of the first point at that distance>>.
FarthestFrom(src, pos) ==
  LET n == Len(src)
      d == [j \in 1 .. n - 1 |-> Dist2(src[pos + 1], src[((pos + j) % n) + 1])]
      m == IF n = 1 THEN 0
           ELSE d[CHOOSE j \in 1 .. n - 1 : \A i \in 1 .. n - 1 : d[j] >= d[i]]
  IN IF m = 0 THEN <<0, 0>>
     ELSE <<m, CHOOSE j \in 1 .. n - 1 : d[j] = m /\ \A i \in 1 .. j - 1 : d[i] < m>>

\* Douglas-Peucker on the part of the closed curve from position a to
\* position e: the points kept, the one at e excluded.
RECURSIVE Simplify(_, _, _, _)
Simplify(src, arc, a, e) ==
  LET n == Len(src)
      start == src[a + 1]
      end == src[e + 1]
      len == (e - a + n) % n
      dx == end[1] - start[1]
      dy == end[2] - start[2]
      d == [j \in 1 .. len - 1 |->
              LET pt == src[((a + j) % n) + 1]
              IN Abs((pt[2] - start[2]) * dx - (pt[1] - start[1]) * dy)]
      m == d[CHOOSE j \in 1 .. len - 1 : \A i \in 1 .. len - 1 : d[j] >= d[i]]
      split == (a + (CHOOSE j \in 1 .. len - 1 :
                       d[j] = m /\ \A i \in 1 .. j - 1 : d[i] < m)) % n
  IN IF len = 1 THEN <<start>>
     ELSE IF dx = 0 /\ dy = 0 THEN <<AssertionFailed>>
     ELSE IF WithinEpsilon(m * m, dx * dx + dy * dy, arc, 1) THEN <<start>>
     ELSE Simplify(src, arc, a, split) \o Simplify(src, arc, split, e)

\* The offset kept after a round of "farthest point": the new one, or the
\* one before when every point coincides with the current one.
FarOffset(f, before) == IF f[1] = 0 THEN before ELSE f[2]

\* The curve is one point when the two far points (at positions pos and
\* pos + rs) are within epsilon of each other (squared distance far2), and
\* otherwise the two parts between them are simplified.
SimplifyBetween(src, arc, pos, rs, far2) ==
  IF WithinEpsilon(far2, 1, arc, 1) THEN <<src[pos + 1]>>
  ELSE Simplify(src, arc, pos, (pos + rs) % Len(src))
         \o Simplify(src, arc, (pos + rs) % Len(src), pos)

\* The third round, from position pos.
SimplifyFrom(src, arc, pos, rs) ==
  SimplifyBetween(src, arc, pos, FarOffset(FarthestFrom(src, pos), rs),
                  FarthestFrom(src, pos)[1])

\* The second round, from position pos; the third starts at the point found.
SimplifyVia(src, arc, pos, rs) ==
  SimplifyFrom(src, arc, (pos + FarOffset(FarthestFrom(src, pos), rs)) % Len(src),
               FarOffset(FarthestFrom(src, pos), rs))

\* The first two stages of approxPolyDP on a closed curve: three rounds of
\* "farthest point from the current one", starting at the first point, give
\* two far points; then the parts between them are simplified.
SimplifyClosed(src, arc) ==
  SimplifyVia(src, arc, FarthestFrom(src, 0)[2] % Len(src), FarthestFrom(src, 0)[2])

\* The last stage of approxPolyDP, on its output array dst: a point pt
\* between start and end is dropped when it is within epsilon / sqrt(2) of
\* the chord, the chord is oblique and the path does not turn back at pt.
\* The array is rewritten in place (wpos) while it is read (pos).
RECURSIVE CleanUp(_, _, _, _, _, _, _, _)
CleanUp(arc, dst, new_count, pos, wpos, start, pt, i) ==
  LET count == Len(dst)
      end == dst[pos + 1]
      pos1 == (pos + 1) % count
      dx == end[1] - start[1]
      dy == end[2] - start[2]
      dist == Abs((pt[1] - start[1]) * dy - (pt[2] - start[2]) * dx)
      inner == (pt[1] - start[1]) * (end[1] - pt[1]) + (pt[2] - start[2]) * (end[2] - pt[2])
      dropped == [dst EXCEPT ![wpos + 1] = end]
  IN IF i >= count \/ new_count <= 2 THEN SubSeq(dst, 1, new_count)
     ELSE IF /\ WithinEpsilon(dist * dist, dx * dx + dy * dy, arc, 2)
             /\ dx # 0 /\ dy # 0 /\ inner >= 0
     THEN CleanUp(arc, dropped, new_count - 1, (pos1 + 1) % count, (wpos + 1) % count,
                  end, dropped[pos1 + 1], i + 2)
     ELSE CleanUp(arc, [dst EXCEPT ![wpos + 1] = pt], new_count, pos1,
                  (wpos + 1) % count, pt, end, i + 1)

\* approxPolyDP stops on an assertion when the two ends of a part to
\* simplify are the same point.
ApproxRaises(c) ==
  SelectSeq(SimplifyClosed(c, ArcLength(c)), LAMBDA p : p = AssertionFailed) # << >>

\* The clean-up started on the simplified curve dst.
CleanUpAll(arc, dst) ==
  CleanUp(arc, dst, Len(dst), 1 % Len(dst), 0, dst[Len(dst)], dst[1], 0)

\* epsilon = 0.02 * cv2.arcLength(c, True); cv2.approxPolyDP(c, epsilon, True)
ApproxPolyDP(c) == CleanUpAll(ArcLength(c), SimplifyClosed(c, ArcLength(c)))

\* The strict convex hull of the points S as the library walks it: from the
\* largest point (by x, then y), every other point on the non-negative side.
RECURSIVE HullWalk(_, _, _)
HullWalk(S, hull, cur) ==
  LET cands == {q \in S \ {cur} : \A r \in S : Cross(cur, q, r) >= 0}
      q == CHOOSE q \in cands : \A u \in cands : Dist2(cur, q) >= Dist2(cur, u)
  IN IF cands = {} THEN hull
     ELSE IF \E i \in 1 .. Len(hull) : hull[i] = q THEN hull
     ELSE HullWalk(S, Append(hull, q), q)

\* The largest of the points S, by x and then y.
LexMax(S) == CHOOSE p \in S : \A q \in S : q[1] < p[1] \/ (q[1] = p[1] /\ q[2] <= p[2])

\* The position in points of each hull vertex.
HullIndices(points, raw) ==
  [i \in 1 .. Len(raw) |-> CHOOSE k \in 1 .. Len(points) :
      points[k] = raw[i] /\ \A j \in 1 .. k - 1 : points[j] # raw[i]]

Rotate(raw, i0) == [i \in 1 .. Len(raw) |-> raw[((i0 - 1 + i - 1) % Len(raw)) + 1]]

\* The hull raw, whose vertices have the positions idx in the input, the
\* least at lo and the greatest at hi, lt of them following a smaller one:
\* when the positions run up or down around the hull, the hull is turned to
\* start at the end of that run.
HullShift(raw, lo, hi, lt) ==
  IF /\ Len(raw) >= 3
     /\ (Abs(hi - lo) = 1 \/ Abs(hi - lo) = Len(raw) - 1)
     /\ (lt <= 1 \/ lt >= Len(raw) - 2)
  THEN Rotate(raw, IF Succ(hi, Len(raw)) = lo THEN lo ELSE hi)
  ELSE raw

HullOrder(raw, idx) ==
  HullShift(raw,
            CHOOSE i \in 1 .. Len(idx) : \A j \in 1 .. Len(idx) : idx[i] <= idx[j],
            CHOOSE i \in 1 .. Len(idx) : \A j \in 1 .. Len(idx) : idx[i] >= idx[j],
            Cardinality({i \in 2 .. Len(idx) : idx[i - 1] < idx[i]}))

HullOf(points, raw) == HullOrder(raw, HullIndices(points, raw))

\* cv2.convexHull(points): the hull vertices.
ConvexHull(points) ==
  HullOf(points, HullWalk({points[i] : i \in 1 .. Len(points)},
                          <<LexMax({points[i] : i \in 1 .. Len(points)})>>,
                          LexMax({points[i] : i \in 1 .. Len(points)})))

\* The one of d and its quarter turns with dx >= 0 and dy > 0: an angle in
\* (0, 90] degrees.
Canon(d) ==
  IF d[1] >= 0 /\ d[2] > 0 THEN d
  ELSE IF -d[2] >= 0 /\ d[1] > 0 THEN <<-d[2], d[1]>>
  ELSE IF -d[1] >= 0 /\ -d[2] > 0 THEN <<-d[1], -d[2]>>
  ELSE <<d[2], -d[1]>>

\* The rectangle around the hull H with one side along direction d: width
\* is the extent along d, height the extent across it.
RectAlong(H, d) ==
  LET n == Len(H)
      nn == d[1] * d[1] + d[2] * d[2]
      ps == {H[i][1] * d[1] + H[i][2] * d[2] : i \in 1 .. n}
      qs == {H[i][2] * d[1] - H[i][1] * d[2] : i \in 1 .. n}
      p0 == CHOOSE v \in ps : \A u \in ps : v <= u
      p1 == CHOOSE v \in ps : \A u \in ps : v >= u
      q0 == CHOOSE v \in qs : \A u \in qs : v <= u
      q1 == CHOOSE v \in qs : \A u \in qs : v >= u
  IN [center |-> <<(p0 + p1) * d[1] - (q0 + q1) * d[2],
                   (p0 + p1) * d[2] + (q0 + q1) * d[1], 2 * nn>>,
      size |-> << <<p1 - p0, 1, nn>>, <<q1 - q0, 1, nn>> >>,
      angle |-> d]

\* The direction of the hull edge from H[i], reduced, as an angle in (0, 90].
EdgeDirection(H, i) ==
  LET ex == H[Succ(i, Len(H))][1] - H[i][1]
      ey == H[Succ(i, Len(H))][2] - H[i][2]
  IN Canon(<<ex \div Gcd(Abs(ex), Abs(ey)), ey \div Gcd(Abs(ex), Abs(ey))>>)

\* r comes before s: less area, or the same area and no greater direction.
RectBefore(r, s) ==
  LET ar == r.size[1][1] * r.size[2][1] * s.size[1][3]
      as == s.size[1][1] * s.size[2][1] * r.size[1][3]
  IN \/ ar < as
     \/ /\ ar = as
        /\ (r.angle[1] < s.angle[1] \/ (r.angle[1] = s.angle[1] /\ r.angle[2] <= s.angle[2]))

FirstRect(rect) ==
  rect[CHOOSE i \in 1 .. Len(rect) : \A j \in 1 .. Len(rect) : RectBefore(rect[i], rect[j])]

\* The rectangle of the hull H.  One hull point: that point, size 0, angle
\* 0.  Two: the segment from the first hull point to the second, height 0.
\* More: the rectangle of least area among those with a side along a hull
\* edge (of equal ones, the one of the least direction).
RectOfHull(H) ==
  IF Len(H) = 1
  THEN [center |-> <<2 * H[1][1], 2 * H[1][2], 2>>,
        size |-> << <<0, 1, 1>>, <<0, 1, 1>> >>, angle |-> <<1, 0>>]
  ELSE IF Len(H) = 2
  THEN [center |-> <<(H[1][1] + H[2][1]) * Dist2(H[1], H[2]),
                     (H[1][2] + H[2][2]) * Dist2(H[1], H[2]), 2 * Dist2(H[1], H[2])>>,
        size |-> << <<Dist2(H[1], H[2]), 1, Dist2(H[1], H[2])>>,
                    <<0, 1, Dist2(H[1], H[2])>> >>,
        angle |-> <<H[2][1] - H[1][1], H[2][2] - H[1][2]>>]
  ELSE FirstRect([i \in 1 .. Len(H) |-> RectAlong(H, EdgeDirection(H, i))])

\* cv2.minAreaRect(hull).  The library takes the hull of its argument again.
MinAreaRect(points) == RectOfHull(ConvexHull(points))

\* cv2.boxPoints followed by np.int0: the four corners, truncated toward 0.
BoxPoints(rect) ==
  LET cx == rect.center[1]
      cy == rect.center[2]
      den == rect.center[3]
      nn == rect.angle[1] * rect.angle[1] + rect.angle[2] * rect.angle[2]
      k == den \div (2 * nn)
      ah == rect.angle[2] * rect.size[2][1] * k
      bw == rect.angle[1] * rect.size[1][1] * k
      bh == rect.angle[1] * rect.size[2][1] * k
      aw == rect.angle[2] * rect.size[1][1] * k
      p0 == <<cx - ah - bw, cy + bh - aw>>
      p1 == <<cx + ah - bw, cy - bh - aw>>
      p2 == <<2 * cx - p0[1], 2 * cy - p0[2]>>
      p3 == <<2 * cx - p1[1], 2 * cy - p1[2]>>
      int0(p) == <<TruncDiv(p[1], den), TruncDiv(p[2], den)>>
  IN <<int0(p0), int0(p1), int0(p2), int0(p3)>>

\* ------------------------------------------------ get_accurate_rotated_bbox
\* The filter with "at least" for "more than".
PassesAreaFilterInclusive(c, roi_area, ratio) ==
  ContourArea2(c) * ratio[2] >= 2 * roi_area * ratio[1]

\* The filter turned round: keeps the contours under the threshold.
PassesAreaFilterBelow(c, roi_area, ratio) ==
  ContourArea2(c) * ratio[2] < 2 * roi_area * ratio[1]

\* area > roi_area * min_area_ratio, with the ratio a fraction <<num, den>>.
PassesAreaFilter(c, roi_area, ratio) ==
  ContourArea2(c) * ratio[2] > 2 * roi_area * ratio[1]

ValidContours(contours, roi_area, ratio) ==
  SelectSeq(contours, LAMBDA c : PassesAreaFilter(c, roi_area, ratio))

\* The first contour of the list, whatever its area.
FirstContour(cs) == cs[1]

\* max(valid_contours, key=cv2.contourArea): the first of the largest.
MaxByArea(cs) ==
  LET i == CHOOSE i \in 1 .. Len(cs) :
             /\ \A j \in 1 .. Len(cs) : ContourArea2(cs[i]) >= ContourArea2(cs[j])
             /\ \A j \in 1 .. i - 1 : ContourArea2(cs[j]) < ContourArea2(cs[i])
  IN cs[i]

\* Both columns shifted by x1.
ShiftBoxByX(box, x1, y1) == [i \in 1 .. Len(box) |-> <<box[i][1] + x1, box[i][2] + x1>>]

\* box[:,0] += x1; box[:,1] += y1
ShiftBox(box, x1, y1) == [i \in 1 .. Len(box) |-> <<box[i][1] + x1, box[i][2] + y1>>]

\* ((center_x + x1, center_y + y1), rotated_rect[1], rotated_rect[2])
AdjustRect(rect, x1, y1) ==
  [center |-> <<rect.center[1] + x1 * rect.center[3],
                rect.center[2] + y1 * rect.center[3], rect.center[3]>>,
   size |-> rect.size, angle |-> rect.angle]

\* ------------------------------------------------------ draw_rotated_bbox
\* np.mean(rotated_box, axis=0).astype(int)
BoxCentre(box) ==
  LET xs == [i \in 1 .. Len(box) |-> box[i][1]]
      ys == [i \in 1 .. Len(box) |-> box[i][2]]
  IN <<TruncDiv(SumFn(xs, 1, Len(box)), Len(box)),
       TruncDiv(SumFn(ys, 1, Len(box)), Len(box))>>

\* cv2.polylines(image, [rotated_box], True, color, thickness)
Polylines(img, box, color, thickness) ==
  [img EXCEPT !.drawn = Append(@, [call |-> "polylines", pts |-> box, closed |-> TRUE,
                                   color |-> color, thickness |-> thickness])]

\* cv2.circle(image, tuple(center), 3, (0, 0, 255), -1)
Circle(img, center, radius, color, thickness) ==
  [img EXCEPT !.drawn = Append(@, [call |-> "circle", center |-> center,
                                   radius |-> radius, color |-> color,
                                   thickness |-> thickness])]

\* draw_rotated_bbox(image, rotated_box), in place.
DrawRotatedBbox(img, box) ==
  Circle(Polylines(img, box, Green, Thickness), BoxCentre(box), CircleRadius, Red, Filled)

\* cv2.putText(image, text, org, FONT_HERSHEY_SIMPLEX, 0.5, (255, 255, 255), 2)
PutText(img, text, org) ==
  [img EXCEPT !.drawn = Append(@, [call |-> "putText", text |-> text, org |-> org,
                                   font |-> "FONT_HERSHEY_SIMPLEX",
                                   scale |-> FontScaleTenths, color |-> TextColor,
                                   thickness |-> TextThickness])]

\* f"{conf*100:.1f}" of the float32 c (at least 1/128): the product is
\* exact in a double, and the text is its nearest number of tenths of a
\* percent, halves to even.
FormatPercent(c) ==
  LET hi == 1000 * (c[1] \div 4096) + (1000 * (c[1] % 4096)) \div 4096
      lo == (1000 * (c[1] % 4096)) % 4096
      rest == (hi % 2^(c[2] - 12)) * 4096 + lo
  IN hi \div 2^(c[2] - 12)
       + (IF \/ rest > 2^(c[2] - 1)
             \/ rest = 2^(c[2] - 1) /\ (hi \div 2^(c[2] - 12)) % 2 = 1
          THEN 1 ELSE 0)

\* How the double nearest to a quotient with divisor b lies to it: 1 over,
\* -1 under, 0 on it.  bits of its 53 binary digits are taken, the last
\* is last, and r is the remainder.
RECURSIVE DoubleError(_, _, _, _)
DoubleError(r, b, bits, last) ==
  IF r = 0 THEN 0
  ELSE IF bits = 53
  THEN (IF 2 * r > b \/ (2 * r = b /\ last = 1) THEN 1 ELSE -1)
  ELSE DoubleError((2 * r) % b, b,
                   IF bits > 0 \/ 2 * r >= b THEN bits + 1 ELSE bits,
                   IF 2 * r >= b THEN 1 ELSE 0)

\* f"{x:.1f}" of the length x = <<n, d, r>>: the nearest number of tenths.
\* When x is half-way between two, the double the program holds decides:
\* the quotient is rounded to it, and the text takes its side (the even
\* number of tenths when the double is x itself).
FormatTenths(x) ==
  LET t == CHOOSE m \in 0 .. (10 * x[1]) \div x[2] :
             /\ m * m * x[2] * x[2] * x[3] <= 100 * x[1] * x[1]
             /\ 100 * x[1] * x[1] < (m + 1) * (m + 1) * x[2] * x[2] * x[3]
      low == (2 * t + 1) * (2 * t + 1) * x[2] * x[2] * x[3]
      side == DoubleError((2 * t + 1) % 20, 20, BitLen((2 * t + 1) \div 20),
                          ((2 * t + 1) \div 20) % 2)
  IN IF 400 * x[1] * x[1] < low THEN t
     ELSE IF 400 * x[1] * x[1] > low THEN t + 1
     ELSE IF side > 0 \/ (side = 0 /\ t % 2 = 1) THEN t + 1
     ELSE t

\* --------------------------------------------------------------- pixel_to_cm
\* Floor division x // k.
FloorDiv(x, k) == <<x[1] \div (x[2] * k), 1, x[3]>>

\* Python's true division x / k of the length x by the integer k, reduced.
TrueDiv(x, k) ==
  LET g == Gcd(x[1], x[2] * k) IN <<x[1] \div g, (x[2] * k) \div g, x[3]>>

\* fault: ZeroDivisionError.
PixelToCm(width_pixels, height_pixels, depth_cm, focal_length_pixels) ==
  IF focal_length_pixels = 0
  THEN [fault |-> TRUE, width_cm |-> <<0, 1, 1>>, height_cm |-> <<0, 1, 1>>]
  ELSE [fault |-> FALSE,
        width_cm |-> TrueDiv(<<width_pixels[1] * depth_cm, width_pixels[2],
                               width_pixels[3]>>, focal_length_pixels),
        height_cm |-> TrueDiv(<<height_pixels[1] * depth_cm, height_pixels[2],
                                height_pixels[3]>>, focal_length_pixels)]

\* ------------------------------------------------------------------ inputs
InRect(p, r) == r[2] <= p[1] /\ p[1] <= r[4] /\ r[1] <= p[2] /\ p[2] <= r[3]

MakeFrame(blobs) ==
  [h |-> FrameH, w |-> FrameW,
   px |-> Table([p \in (0 .. FrameH - 1) \X (0 .. FrameW - 1) |->
                   IF \E r \in blobs : InRect(p, r) THEN White ELSE Black]),
   drawn |-> << >>]

BlackFrame == MakeFrame({})
TwoBlobFrame == MakeFrame({<<0, 0, 3, FrameH - 1>>, <<7, 0, 9, FrameH - 1>>})
SmallBlobFrame == MakeFrame({<<0, 0, 1, 1>>})

Frames == {BlackFrame, TwoBlobFrame, SmallBlobFrame}

\* Detection boxes <<x1, y1, x2, y2>> in half pixels: the whole frame, a box
\* with fractional corners over the right of it, a box over the dark
\* middle, a box that int() truncates to zero width, and a box outside the
\* frame.
Boxes ==
  {<<0, 0, 2 * FrameW, 2 * FrameH>>,
   <<9, 2, 2 * FrameW + 1, 2 * FrameH>>,
   <<8, 0, 14, 2 * FrameH>>,
   <<4, 2, 5, 2 * FrameH>>,
   <<2 * FrameW + 2, 0, 2 * FrameW + 6, 2 * FrameH>>}

\* Confidences: the float32 just under 0.4, the float32 nearest to 0.4 (it
\* is over the double 0.4), and 0.8125.
Confs == {<<13421772, 25>>, <<13421773, 25>>, <<13631488, 24>>}

Detection == [xyxy : Boxes, conf : Confs, cls : {0}]

RECURSIVE SeqsUpTo(_, _)
SeqsUpTo(S, n) ==
  IF n = 0 THEN {<< >>}
  ELSE LET shorter == SeqsUpTo(S, n - 1)
       IN shorter \cup {Append(q, e) : q \in {t \in shorter : Len(t) = n - 1}, e \in S}

DetectionLists == SeqsUpTo(Detection, MaxDet)

\* Inputs of the direct calls of get_accurate_rotated_bbox.
FitBoxes ==
  {<<2 * xa + fx, 2 * ya, 2 * xb, 2 * yb>> :
     xa \in {-2, 0, 2, 5}, fx \in {0, 1}, ya \in {0, 1},
     xb \in {3, 6, FrameW, FrameW + 2}, yb \in {0, FrameH - 1, FrameH}}

Ratios == {<<0, 1>>, <<1, 10>>, <<1, 4>>, <<1, 2>>, <<1, 1>>}

\* Inputs of the direct calls of pixel_to_cm: lengths in pixels.
PixelSizes == {<<0, 1, 1>>, <<1, 1, 1>>, <<3, 1, 1>>, <<5, 1, 2>>, <<250, 1, 1>>,
               <<500, 1, 1>>, <<1000, 1, 1>>}
Depths == {70, 100}
FocalLengths == {0, 3, 1000}

\* -------------------------------------------------------------------- state
VARIABLES
  pc,               \* where main is: read, process, loop, fit, show, done, crashed
  buffers,          \* the image buffers: "frame" and the "copy" made of it
  processed_frame,  \* the buffer process_frame draws on and returns
  detections,       \* results[0].boxes of the current frame
  idx,              \* position of the for loop in detections
  save_frame,
  conf,             \* the loop variable conf; <<0, 0>> before the loop sets it
  log,              \* per detection handled: what was done with it
  files,            \* files written for the current frame
  captured,         \* the frame as main handed it to process_frame
  fit,              \* the call of get_accurate_rotated_bbox: position and locals
  cm_args, cm_ret   \* a direct call of pixel_to_cm

vars == <<pc, buffers, processed_frame, detections, idx, save_frame, conf, log,
          files, captured, fit, cm_args, cm_ret>>

EmptyImage == [h |-> 0, w |-> 0, px |-> Table([p \in {} |-> Black])]

\* The locals of get_accurate_rotated_bbox on entry.  rect and box are what
\* it returns, << >> for None and <<value>> otherwise; steps lists the
\* stages of the pipeline the call has entered.
NewFit(at, bbox, min_area_ratio) ==
  [pc |-> at, bbox |-> bbox, min_area_ratio |-> min_area_ratio,
   x1 |-> 0, y1 |-> 0, roi |-> EmptyImage, roi_area |-> 0, binary |-> EmptyImage,
   contours |-> << >>, valid_contours |-> << >>, c |-> << >>,
   rotated_rect |-> << >>, local_box |-> << >>,
   rect |-> << >>, box |-> << >>, steps |-> << >>]

NoFit == NewFit("idle", <<0, 0, 0, 0>>, DefaultMinAreaRatio)

NoCmArgs == [width_pixels |-> <<0, 1, 1>>, height_pixels |-> <<0, 1, 1>>,
             depth_cm |-> DepthCm, focal_length_pixels |-> FocalLengthPixels]

MainIdle ==
  /\ processed_frame = "frame"
  /\ detections = << >>
  /\ idx = 0
  /\ save_frame = FALSE
  /\ conf = <<0, 0>>
  /\ log = << >>
  /\ files = << >>

Init ==
  /\ pc = "read"
  /\ MainIdle
  /\ buffers = [b \in {"frame", "copy"} |-> BlackFrame]
  /\ captured = BlackFrame
  /\ fit = NoFit
  /\ cm_args = NoCmArgs /\ cm_ret = << >>

\* ------------------------------------------------ get_accurate_rotated_bbox
\* x1, y1, x2, y2 = map(int, bbox); roi = image[y1:y2, x1:x2]; roi_area
FitCrop ==
  /\ pc = "fit" /\ fit.pc = "crop"
  /\ LET x1 == IntOfHalf(fit.bbox[1])
         y1 == IntOfHalf(fit.bbox[2])
         x2 == IntOfHalf(fit.bbox[3])
         y2 == IntOfHalf(fit.bbox[4])
         roi == Crop(buffers["frame"], <<x1, y1, x2, y2>>)
     IN fit' = [fit EXCEPT !.pc = "mask", !.x1 = x1, !.y1 = y1, !.roi = roi,
                           !.roi_area = roi.h * roi.w]
  /\ UNCHANGED <<pc, buffers, processed_frame, detections, idx, save_frame, conf,
                 log, files, captured, cm_args, cm_ret>>

\* binary = get_binary_mask(roi).  cv2.cvtColor raises on an empty image,
\* and nothing in the program catches it.
FitMask ==
  /\ pc = "fit" /\ fit.pc = "mask"
  /\ IF IsEmptyImage(fit.roi)
     THEN fit' = [fit EXCEPT !.pc = "raised", !.steps = Append(@, "mask")]
     ELSE \E binary \in GetBinaryMask(fit.roi) :
            fit' = [fit EXCEPT !.pc = "contours", !.steps = Append(@, "mask"),
                               !.binary = binary]
  /\ UNCHANGED <<pc, buffers, processed_frame, detections, idx, save_frame, conf,
                 log, files, captured, cm_args, cm_ret>>

\* contours = cv2.findContours(...); if not contours: return None, None
FitContours ==
  /\ pc = "fit" /\ fit.pc = "contours"
  /\ LET contours == FindContours(fit.binary)
     IN fit' = [fit EXCEPT !.pc = IF contours = << >> THEN "returned" ELSE "filter",
                           !.steps = Append(@, "contours"),
                           !.contours = contours]
  /\ UNCHANGED <<pc, buffers, processed_frame, detections, idx, save_frame, conf,
                 log, files, captured, cm_args, cm_ret>>

\* the area filter; if not valid_contours: return None, None
FitFilter ==
  /\ pc = "fit" /\ fit.pc = "filter"
  /\ LET valid == ValidContours(fit.contours, fit.roi_area, fit.min_area_ratio)
     IN fit' = [fit EXCEPT !.pc = IF valid = << >> THEN "returned" ELSE "shape",
                           !.steps = Append(@, "filter"),
                           !.valid_contours = valid]
  /\ UNCHANGED <<pc, buffers, processed_frame, detections, idx, save_frame, conf,
                 log, files, captured, cm_args, cm_ret>>

\* c = max(...); approxPolyDP; convexHull; minAreaRect; boxPoints; int0.
\* An assertion failing inside approxPolyDP raises.
FitShape ==
  /\ pc = "fit" /\ fit.pc = "shape"
  /\ LET c == MaxByArea(fit.valid_contours)
     IN IF ApproxRaises(c)
        THEN fit' = [fit EXCEPT !.pc = "raised", !.steps = Append(@, "shape"),
                                !.c = <<c>>]
        ELSE \E rr \in {MinAreaRect(ConvexHull(ApproxPolyDP(c)))} :
               fit' = [fit EXCEPT !.pc = "map", !.steps = Append(@, "shape"),
                                  !.c = <<c>>, !.rotated_rect = <<rr>>,
                                  !.local_box = <<BoxPoints(rr)>>]
  /\ UNCHANGED <<pc, buffers, processed_frame, detections, idx, save_frame, conf,
                 log, files, captured, cm_args, cm_ret>>

\* box += (x1, y1); adjusted_rect; return adjusted_rect, box
FitMap ==
  /\ pc = "fit" /\ fit.pc = "map"
  /\ fit' = [fit EXCEPT !.pc = "returned", !.steps = Append(@, "map"),
                        !.box = <<ShiftBox(fit.local_box[1], fit.x1, fit.y1)>>,
                        !.rect = <<AdjustRect(fit.rotated_rect[1], fit.x1, fit.y1)>>]
  /\ UNCHANGED <<pc, buffers, processed_frame, detections, idx, save_frame, conf,
                 log, files, captured, cm_args, cm_ret>>

FitStep == FitCrop \/ FitMask \/ FitContours \/ FitFilter \/ FitShape \/ FitMap

\* --------------------------------------------------------------------- main
\* cap.read() delivers a frame (taken here as rescaleFrame returns it).  The
\* locals of the previous call of process_frame are gone.
MainRead ==
  /\ pc = "read"
  /\ \E f \in Frames :
       /\ buffers' = [b \in {"frame", "copy"} |-> IF b = "frame" THEN f ELSE BlackFrame]
       /\ captured' = f
  /\ pc' = "process"
  /\ processed_frame' = "frame"
  /\ detections' = << >> /\ idx' = 0 /\ save_frame' = FALSE /\ conf' = <<0, 0>>
  /\ log' = << >> /\ files' = << >>
  /\ fit' = NoFit
  /\ UNCHANGED <<cm_args, cm_ret>>

\* cap.read() fails: "Failed to grab frame", break.
MainReadFails ==
  /\ pc = "read"
  /\ pc' = "done"
  /\ UNCHANGED <<buffers, processed_frame, detections, idx, save_frame, conf, log,
                 files, captured, fit, cm_args, cm_ret>>

\* No copy: processed_frame is the frame itself.
FrameAlias == "frame"

\* frame.copy(): the buffer the copy lives in.
FrameCopy == "copy"

\* process_frame up to the loop: the detector runs, the frame is copied.
ProcessFrameBegin ==
  /\ pc = "process"
  /\ \E ds \in DetectionLists : detections' = ds
  /\ processed_frame' = FrameCopy
  /\ buffers' = [buffers EXCEPT ![FrameCopy] = buffers["frame"]]
  /\ save_frame' = FALSE
  /\ idx' = 1
  /\ pc' = "loop"
  /\ UNCHANGED <<conf, log, files, captured, fit, cm_args, cm_ret>>

\* conf >= conf_threshold, the float32 conf widened to a double.
MeetsThreshold(c) ==
  /\ c[1] > 0
  /\ \/ c[2] < ConfThreshold[3]
     \/ /\ c[2] = ConfThreshold[3]
        /\ (c[1] > ConfThreshold[1] \/ (c[1] = ConfThreshold[1] /\ ConfThreshold[2] = 0))

\* A detection under the threshold: the body of the if is skipped.
ProcessDetectionSkip ==
  /\ pc = "loop"
  /\ idx <= Len(detections)
  /\ ~MeetsThreshold(detections[idx].conf)
  /\ conf' = detections[idx].conf
  /\ log' = Append(log, [det |-> idx, fitted |-> FALSE, raised |-> FALSE,
                         rect |-> << >>, box |-> << >>, drawn |-> FALSE, cm |-> << >>])
  /\ idx' = idx + 1
  /\ UNCHANGED <<pc, buffers, processed_frame, detections, save_frame, files,
                 captured, fit, cm_args, cm_ret>>

\* A detection at or over the threshold: save_frame = True and the call
\* get_accurate_rotated_bbox(frame, xyxy).
ProcessDetectionCall ==
  /\ pc = "loop"
  /\ idx <= Len(detections)
  /\ MeetsThreshold(detections[idx].conf)
  /\ conf' = detections[idx].conf
  /\ save_frame' = TRUE
  /\ fit' = NewFit("crop", detections[idx].xyxy, DefaultMinAreaRatio)
  /\ pc' = "fit"
  /\ UNCHANGED <<buffers, processed_frame, detections, idx, log, files, captured,
                 cm_args, cm_ret>>

\* What the body of the loop draws for a fitted detection: the box and its
\* centre, then the two lines of text at the rectangle's centre.
Annotate(img, rect, box, cls, c) ==
  LET cm == PixelToCm(rect.size[1], rect.size[2], DepthCm, FocalLengthPixels)
      org == <<TruncDiv(rect.center[1], rect.center[3]),
               TruncDiv(rect.center[2], rect.center[3])>>
      text == [label |-> "Class, Conf", values |-> <<cls, FormatPercent(c)>>]
      dimensions_text == [label |-> "W, H",
                          values |-> <<FormatTenths(cm.width_cm),
                                       FormatTenths(cm.height_cm)>>]
  IN PutText(PutText(DrawRotatedBbox(img, box), text, org),
             dimensions_text, <<org[1], org[2] + TextLineOffset>>)

\* The call returned: "if rotated_box is not None" draws and measures.
ProcessDetectionReturn ==
  /\ pc = "fit" /\ fit.pc = "returned"
  /\ idx \in 1 .. Len(detections)
  /\ IF fit.box = << >>
     THEN /\ log' = Append(log, [det |-> idx, fitted |-> TRUE, raised |-> FALSE,
                                 rect |-> fit.rect, box |-> fit.box,
                                 drawn |-> FALSE, cm |-> << >>])
          /\ UNCHANGED buffers
     ELSE /\ buffers' = [buffers EXCEPT ![processed_frame] =
                           Annotate(@, fit.rect[1], fit.box[1], detections[idx].cls, conf)]
          /\ log' = Append(log, [det |-> idx, fitted |-> TRUE, raised |-> FALSE,
                                 rect |-> fit.rect, box |-> fit.box,
                                 drawn |-> TRUE,
                                 cm |-> <<PixelToCm(fit.rect[1].size[1], fit.rect[1].size[2],
                                                    DepthCm, FocalLengthPixels)>>])
  /\ idx' = idx + 1
  /\ pc' = "loop"
  /\ UNCHANGED <<processed_frame, detections, save_frame, conf, files, captured,
                 fit, cm_args, cm_ret>>

\* The call raised: the exception leaves process_frame and main.
ProcessDetectionRaise ==
  /\ pc = "fit" /\ fit.pc = "raised"
  /\ idx \in 1 .. Len(detections)
  /\ log' = Append(log, [det |-> idx, fitted |-> TRUE, raised |-> TRUE,
                         rect |-> << >>, box |-> << >>, drawn |-> FALSE, cm |-> << >>])
  /\ pc' = "crashed"
  /\ UNCHANGED <<buffers, processed_frame, detections, idx, save_frame, conf,
                 files, captured, fit, cm_args, cm_ret>>

\* After the loop: "if save_frame" writes the file, named after conf.
ProcessFrameEnd ==
  /\ pc = "loop"
  /\ idx > Len(detections)
  /\ files' = IF save_frame
              THEN Append(files, [conf |-> conf, name |-> FormatPercent(conf),
                                  image |-> buffers[processed_frame]])
              ELSE files
  /\ pc' = "show"
  /\ UNCHANGED <<buffers, processed_frame, detections, idx, save_frame, conf, log,
                 captured, fit, cm_args, cm_ret>>

\* imshow, then waitKey: any key but q, or none.
MainShow ==
  /\ pc = "show"
  /\ pc' = "read"
  /\ UNCHANGED <<buffers, processed_frame, detections, idx, save_frame, conf, log,
                 files, captured, fit, cm_args, cm_ret>>

\* waitKey returns q: break.
MainQuit ==
  /\ pc = "show"
  /\ pc' = "done"
  /\ UNCHANGED <<buffers, processed_frame, detections, idx, save_frame, conf, log,
                 files, captured, fit, cm_args, cm_ret>>

Next ==
  \/ MainRead
  \/ MainReadFails
  \/ ProcessFrameBegin
  \/ ProcessDetectionSkip
  \/ ProcessDetectionCall
  \/ FitStep
  \/ ProcessDetectionReturn
  \/ ProcessDetectionRaise
  \/ ProcessFrameEnd
  \/ MainShow
  \/ MainQuit

Spec == Init /\ [][Next]_vars

\* ------------------------------------- get_accurate_rotated_bbox, called alone
FitInit ==
  /\ pc = "fit"
  /\ MainIdle
  /\ \E f \in Frames :
       /\ buffers = [b \in {"frame", "copy"} |-> IF b = "frame" THEN f ELSE BlackFrame]
       /\ captured = f
  /\ \E b \in FitBoxes, r \in Ratios : fit = NewFit("crop", b, r)
  /\ cm_args = NoCmArgs /\ cm_ret = << >>

FitNext == FitStep

SpecFit == FitInit /\ [][FitNext]_vars

\* --------------------------------------------------- pixel_to_cm, called alone
CmInit ==
  /\ pc = "call"
  /\ MainIdle
  /\ buffers = [b \in {"frame", "copy"} |-> BlackFrame]
  /\ captured = BlackFrame
  /\ fit = NoFit
  /\ cm_args \in [width_pixels : PixelSizes, height_pixels : PixelSizes,
                  depth_cm : Depths, focal_length_pixels : FocalLengths]
  /\ cm_ret = << >>

CmCall ==
  /\ pc = "call"
  /\ LET r == PixelToCm(cm_args.width_pixels, cm_args.height_pixels,
                        cm_args.depth_cm, cm_args.focal_length_pixels)
     IN /\ cm_ret' = <<r>>
        /\ pc' = IF r.fault THEN "raised" ELSE "returned"
  /\ UNCHANGED <<buffers, processed_frame, detections, idx, save_frame, conf, log,
                 files, captured, fit, cm_args>>

CmNext == CmCall

SpecCm == CmInit /\ [][CmNext]_vars

\* ------------------------------------------------------------------ claims
RatioLeq(r1, r2) == r1[1] * r2[2] <= r2[1] * r1[2]

InFitCall == pc = "fit"
FitReturned == pc = "fit" /\ fit.pc = "returned"
Entered(stage) == \E i \in 1 .. Len(fit.steps) : fit.steps[i] = stage
Cropped == InFitCall /\ fit.pc # "crop"
Filtered == InFitCall /\ Entered("filter")

\* C1: a detection box whose crop has zero width or zero height makes
\* get_accurate_rotated_bbox return (None, None) without raising, and the
\* empty region is never handed to the enhancement and binarization.
C1_EmptyRegionReturnsNone ==
  (Cropped /\ IsEmptyImage(fit.roi)) =>
     /\ fit.pc # "raised"
     /\ ~Entered("mask")
     /\ (fit.pc = "returned" => fit.rect = << >> /\ fit.box = << >>)

\* C2: a failure while one detection is processed is local: main does not
\* stop on it, and when process_frame has finished every detection at or
\* over the threshold has been processed.
C2_FailureIsLocal ==
  /\ pc # "crashed"
  /\ (\E k \in 1 .. Len(log) : log[k].raised) => pc \in {"loop", "fit", "show"}
  /\ pc = "show" =>
       \A k \in 1 .. Len(detections) :
          MeetsThreshold(detections[k].conf) =>
             \E j \in 1 .. Len(log) : log[j].det = k /\ log[j].fitted

\* C3: when no contour of the mask has an area strictly over
\* min_area_ratio * roi area (no contours at all included), the call returns
\* (None, None), does not raise and enters no fitting stage; a rectangle is
\* returned only when some contour passed the filter; rect and box are
\* absent together or present together.
C3_NoShapeFoundReturnsNone ==
  /\ (InFitCall /\ Entered("contours")) => fit.pc # "raised"
  /\ FitReturned =>
       /\ (fit.rect = << >>) <=> (fit.box = << >>)
       /\ (\A i \in 1 .. Len(fit.contours) :
              ~(ContourArea2(fit.contours[i]) * fit.min_area_ratio[2]
                  > 2 * fit.roi_area * fit.min_area_ratio[1]))
            => /\ fit.rect = << >> /\ fit.box = << >>
               /\ ~Entered("shape") /\ ~Entered("map")
       /\ fit.rect # << >> =>
            \E i \in 1 .. Len(fit.contours) :
               ContourArea2(fit.contours[i]) * fit.min_area_ratio[2]
                 > 2 * fit.roi_area * fit.min_area_ratio[1]

C3_Witness ==
  /\ FitReturned
  /\ fit.contours # << >>
  /\ fit.valid_contours = << >>
  /\ fit.rect = << >> /\ fit.box = << >>

\* C4: an all-black sub-image of positive size yields an empty filtered
\* contour list, and the call returns (None, None).
C4_AllBlackYieldsNothing ==
  (FitReturned /\ ~IsEmptyImage(fit.roi) /\ \A p \in Pixels(fit.roi) : fit.roi.px[p] = Black)
     => /\ fit.valid_contours = << >>
        /\ fit.rect = << >> /\ fit.box = << >>

\* C5: the returned rectangle has the local centre moved by (x1, y1), with
\* x1, y1 the truncated corner of the detection box, and the local size and
\* angle; each returned box point is the local integer corner plus (x1, y1);
\* with offset (0, 0) nothing changes.
C5_TranslationToFrame ==
  (FitReturned /\ fit.rect # << >>) =>
     LET x1 == IntOfHalf(fit.bbox[1])
         y1 == IntOfHalf(fit.bbox[2])
         local == fit.rotated_rect[1]
         out == fit.rect[1]
     IN /\ out.center[3] = local.center[3]
        /\ out.center[1] = local.center[1] + x1 * local.center[3]
        /\ out.center[2] = local.center[2] + y1 * local.center[3]
        /\ out.size = local.size
        /\ out.angle = local.angle
        /\ Len(fit.box[1]) = 4 /\ Len(fit.local_box[1]) = 4
        /\ \A i \in 1 .. 4 :
              fit.box[1][i] = <<fit.local_box[1][i][1] + x1, fit.local_box[1][i][2] + y1>>
        /\ (x1 = 0 /\ y1 = 0) => (out = local /\ fit.box = fit.local_box)

C5_Witness ==
  /\ FitReturned /\ fit.rect # << >>
  /\ fit.x1 > 0 /\ fit.y1 > 0
  /\ fit.x1 < FrameW /\ fit.y1 < FrameH
  /\ fit.rect[1].center # fit.rotated_rect[1].center

\* C6: for a fixed mask, the contours kept under a larger min_area_ratio are
\* among those kept under a smaller one, so raising the ratio never raises
\* the number of contours kept.
C6_AreaFilterMonotone ==
  Filtered =>
     \A r1 \in Ratios, r2 \in Ratios :
        RatioLeq(r1, r2) =>
           LET keep1 == ValidContours(fit.contours, fit.roi_area, r1)
               keep2 == ValidContours(fit.contours, fit.roi_area, r2)
           IN /\ Len(keep2) <= Len(keep1)
              /\ \A i \in 1 .. Len(keep2) : \E j \in 1 .. Len(keep1) : keep1[j] = keep2[i]
              /\ r1 = fit.min_area_ratio => keep1 = fit.valid_contours

C6_Witness ==
  /\ FitReturned /\ Entered("filter")
  /\ fit.valid_contours = << >>
  /\ Len(ValidContours(fit.contours, fit.roi_area, DefaultMinAreaRatio)) = 2

\* C7: for a non-zero focal length pixel_to_cm returns
\* (width_px * depth / focal_length, height_px * depth / focal_length), each
\* from its own pixel size; doubling width_px doubles the width and leaves
\* the height unchanged; pixel_to_cm(1000, 500, 100, 1000) is (100, 50).
C7_PixelToCm ==
  (pc # "call" /\ cm_ret # << >>) =>
     LET a == cm_args
         r == cm_ret[1]
         twice == PixelToCm(<<2 * a.width_pixels[1], a.width_pixels[2], a.width_pixels[3]>>,
                            a.height_pixels, a.depth_cm, a.focal_length_pixels)
     IN /\ r.fault <=> a.focal_length_pixels = 0
        /\ ~r.fault =>
             /\ r.width_cm[2] > 0 /\ r.height_cm[2] > 0
             /\ r.width_cm[3] = a.width_pixels[3] /\ r.height_cm[3] = a.height_pixels[3]
             /\ r.width_cm[1] * a.focal_length_pixels * a.width_pixels[2]
                  = a.width_pixels[1] * a.depth_cm * r.width_cm[2]
             /\ r.height_cm[1] * a.focal_length_pixels * a.height_pixels[2]
                  = a.height_pixels[1] * a.depth_cm * r.height_cm[2]
             /\ twice.width_cm[1] * r.width_cm[2] = 2 * r.width_cm[1] * twice.width_cm[2]
             /\ twice.height_cm = r.height_cm
        /\ (a.width_pixels = <<1000, 1, 1>> /\ a.height_pixels = <<500, 1, 1>>
              /\ a.depth_cm = 100 /\ a.focal_length_pixels = 1000)
             => (r.width_cm = <<100, 1, 1>> /\ r.height_cm = <<50, 1, 1>>)

C7_Witness ==
  /\ pc = "returned"
  /\ cm_args = [width_pixels |-> <<1000, 1, 1>>, height_pixels |-> <<500, 1, 1>>,
                depth_cm |-> 100, focal_length_pixels |-> 1000]
  /\ cm_ret = <<[fault |-> FALSE, width_cm |-> <<100, 1, 1>>,
                 height_cm |-> <<50, 1, 1>>]>>

\* C8: the frame is never modified: every detection is fitted against the
\* frame as main delivered it, the annotations go to a copy, and detections
\* with the same box get the same fit whatever their position in the list.
C8_FrameReadOnly ==
  /\ buffers["frame"] = captured
  /\ pc \in {"loop", "fit", "show"} => processed_frame # "frame"
  /\ Cropped =>
       fit.roi = Crop(captured, <<IntOfHalf(fit.bbox[1]), IntOfHalf(fit.bbox[2]),
                                  IntOfHalf(fit.bbox[3]), IntOfHalf(fit.bbox[4])>>)
  /\ \A j \in 1 .. Len(log), k \in 1 .. Len(log) :
        (log[j].fitted /\ log[k].fitted
           /\ detections[log[j].det].xyxy = detections[log[k].det].xyxy)
          => (log[j].rect = log[k].rect /\ log[j].box = log[k].box)

C8_Witness ==
  /\ pc = "fit" /\ fit.pc = "returned"
  /\ Len(log) = 1 /\ log[1].drawn
  /\ buffers["copy"] # buffers["frame"]
  /\ fit.rect # << >>

\* C9: whenever a rectangle is returned, the contour fitted has the largest
\* area among the external contours of the mask, that area is strictly over
\* min_area_ratio * roi_width * roi_height, and exactly one contour is fitted.
C9_DominantContourFitted ==
  (FitReturned /\ fit.rect # << >>) =>
     /\ Len(fit.c) = 1
     /\ \E i \in 1 .. Len(fit.contours) : fit.contours[i] = fit.c[1]
     /\ \A i \in 1 .. Len(fit.contours) :
           ContourArea2(fit.c[1]) >= ContourArea2(fit.contours[i])
     /\ ContourArea2(fit.c[1]) * fit.min_area_ratio[2]
          > 2 * fit.roi.w * fit.roi.h * fit.min_area_ratio[1]
     /\ Cardinality({i \in 1 .. Len(fit.steps) : fit.steps[i] = "shape"}) = 1
     /\ fit.rotated_rect = <<MinAreaRect(ConvexHull(ApproxPolyDP(fit.c[1])))>>

C9_Witness ==
  /\ FitReturned /\ fit.rect # << >>
  /\ Len(fit.valid_contours) >= 2
  /\ \E i \in 1 .. Len(fit.valid_contours) :
        ContourArea2(fit.valid_contours[i]) < ContourArea2(fit.c[1])

\* C10: process_frame writes at most one file per frame, and writes it
\* exactly when some detection has conf >= conf_threshold; detections under
\* the threshold are never fitted, drawn or measured; the confidence in the
\* file's name is that of a detection that met the threshold.
C10_SavedFile ==
  /\ Len(files) <= 1
  /\ pc = "show" =>
       (Len(files) = 1 <=> \E k \in 1 .. Len(detections) : MeetsThreshold(detections[k].conf))
  /\ \A j \in 1 .. Len(log) :
        ~MeetsThreshold(detections[log[j].det].conf)
          => (~log[j].fitted /\ ~log[j].drawn /\ log[j].cm = << >>)
  /\ \A f \in 1 .. Len(files) :
        /\ MeetsThreshold(files[f].conf)
        /\ \E k \in 1 .. Len(detections) :
              /\ MeetsThreshold(detections[k].conf)
              /\ detections[k].conf = files[f].conf
              /\ FormatPercent(detections[k].conf) = files[f].name

====
